---- MODULE Spec2Model ----
(***************************************************************************)
(* Model of the points bot of src/main.py: hashtag detection in group      *)
(* messages (clean_text, extract_hashtags_from, the two regular            *)
(* expressions), the once-per-day limit (can_post_tag on table last_tag)   *)
(* and the score update (add_point on table scores).                       *)
(*                                                                         *)
(* Text is a sequence of characters.  A character is a string naming one   *)
(* code point: ASCII characters stand for themselves, "LF" "CR" "TAB" are  *)
(* the control characters, "ZWSP" "ZWNJ" "ZWJ" "BOM" are U+200B, U+200C,   *)
(* U+200D, U+FEFF, "cy_x" is the small and "CY_X" the capital Cyrillic     *)
(* letter x.  A calendar date is a day number.                             *)
(***************************************************************************)
EXTENDS Integers, Sequences, FiniteSets, TLC

VARIABLES scores, last_tag, today, pc, job, outcome, awards, rejected, issued,
          received, msg, s_raw, s_clean, calls

vars ==
    <<scores, last_tag, today, pc, job, outcome, awards, rejected, issued,
      received, msg, s_raw, s_clean, calls>>

(***************************************************************************)
(* Bounds of the model.                                                    *)
(***************************************************************************)
\* the local date runs over 0..MaxDay
MaxDay == 1
\* number of updates delivered in a run of the event loop
MaxMsgs == 3
\* number of updates delivered in a run of interleaved handlers
MaxConcMsgs == 2
\* length of the strings built from TextChars
MaxLen == 4
\* number of characters put between the '#' and the letters of a tag
MaxMid == 2
\* number of clean_text calls made on one string
MaxCalls == 2

(***************************************************************************)
(* Characters.                                                             *)
(***************************************************************************)
\* str.isspace() / regex \s on the characters of the model
IsSpace(c) == c \in {" ", "LF", "CR", "TAB"}

ZERO_WIDTH == {"ZWSP", "ZWNJ", "ZWJ", "BOM"}

UpperToLower ==
    [c \in {"S", "C", "O", "R", "E", "P", "I", "N", "T", "H",
            "CY_CHE", "CY_IE", "CY_EL", "CY_EN", "CY_DE", "CY_ZHE",
            "CY_BE", "CY_A", "CY_YERU", "CY_O", "CY_KA", "CY_I"} |->
        CASE c = "S" -> "s" [] c = "C" -> "c" [] c = "O" -> "o"
          [] c = "R" -> "r" [] c = "E" -> "e" [] c = "P" -> "p"
          [] c = "I" -> "i" [] c = "N" -> "n" [] c = "T" -> "t"
          [] c = "H" -> "h"
          [] c = "CY_CHE" -> "cy_che" [] c = "CY_IE" -> "cy_ie"
          [] c = "CY_EL" -> "cy_el" [] c = "CY_EN" -> "cy_en"
          [] c = "CY_DE" -> "cy_de" [] c = "CY_ZHE" -> "cy_zhe"
          [] c = "CY_BE" -> "cy_be" [] c = "CY_A" -> "cy_a"
          [] c = "CY_YERU" -> "cy_yeru" [] c = "CY_O" -> "cy_o"
          [] c = "CY_KA" -> "cy_ka" [] c = "CY_I" -> "cy_i"]

\* str.lower() on one character
LowerChar(c) == IF c \in DOMAIN UpperToLower THEN UpperToLower[c] ELSE c

\* regex \w: letters, digits and the underscore
IsWord(c) ==
    \/ c \in DOMAIN UpperToLower
    \/ c \in {UpperToLower[u] : u \in DOMAIN UpperToLower}
    \/ c \in {"0", "1", "2", "_", "a", "b", "x"}

(***************************************************************************)
(* String helpers.                                                         *)
(***************************************************************************)
Min(a, b) == IF a <= b THEN a ELSE b

\* s.replace(ch, "") for every character ch of the set chars
RemoveChars(s, chars) == SelectSeq(s, LAMBDA c : c \notin chars)

\* str.strip(): leading and trailing whitespace removed
Strip(s) ==
    LET idx == {i \in 1..Len(s) : ~IsSpace(s[i])}
    IN  IF idx = {} THEN <<>>
        ELSE LET lo == CHOOSE i \in idx : \A j \in idx : i <= j
                 hi == CHOOSE i \in idx : \A j \in idx : j <= i
             IN  SubSeq(s, lo, hi)

\* variant of CollapseHash for the pattern r"#\s": one whitespace character
\* after a '#' is removed
CollapseHashOne(s) ==
    LET keep == {i \in 1..Len(s) : ~(i > 1 /\ IsSpace(s[i]) /\ s[i - 1] = "#")}
        nth[n \in 1..Cardinality(keep)] ==
            CHOOSE i \in keep : Cardinality({j \in keep : j < i}) = n - 1
    IN  [n \in 1..Cardinality(keep) |-> s[nth[n]]]

\* re.sub(r"#\s+", "#", s): the whitespace run that follows a '#' is removed
CollapseHash(s) ==
    LET afterHash(i) ==
            /\ IsSpace(s[i])
            /\ \E j \in 1..(i - 1) :
                   /\ s[j] = "#"
                   /\ \A k \in (j + 1)..i : IsSpace(s[k])
        keep == {i \in 1..Len(s) : ~afterHash(i)}
        nth[n \in 1..Cardinality(keep)] ==
            CHOOSE i \in keep : Cardinality({j \in keep : j < i}) = n - 1
    IN  [n \in 1..Cardinality(keep) |-> s[nth[n]]]

\* str.lower()
Lower(s) == [i \in 1..Len(s) |-> LowerChar(s[i])]

clean_text(s) ==
    IF s = <<>> THEN <<>>
    ELSE LET s1 == RemoveChars(s, {"CR"})
             s2 == [i \in 1..Len(s1) |-> IF s1[i] = "LF" THEN " " ELSE s1[i]]
             s3 == Strip(s2)
             s4 == RemoveChars(s3, ZERO_WIDTH)
             s5 == CollapseHash(s4)
         IN  Lower(s5)

\* text[offset : offset + length], a Python slice: cut at the end of the text
Slice(text, offset, length) ==
    SubSeq(text, offset + 1, Min(offset + length, Len(text)))

\* the set of the list built by extract_hashtags_from (its callers take set())
extract_hashtags_from(text, entities) ==
    IF text = <<>> \/ entities = <<>> THEN {}
    ELSE {clean_text(Slice(text, entities[i].offset, entities[i].length)) :
              i \in {j \in 1..Len(entities) : entities[j].type = "hashtag"}}

(***************************************************************************)
(* Tags and patterns.                                                      *)
(***************************************************************************)
CHALLENGE_CANON ==
    <<"#", "cy_che", "cy_ie", "cy_el", "cy_el", "cy_ie", "cy_en", "cy_de",
      "cy_zhe", "1">>

TagBall == <<"#", "cy_be", "cy_a", "cy_el", "cy_el">>
TagBally == <<"#", "cy_be", "cy_a", "cy_el", "cy_el", "cy_yeru">>
TagOchki == <<"#", "cy_o", "cy_che", "cy_ka", "cy_i">>
TagScore == <<"#", "s", "c", "o", "r", "e">>
TagPoint == <<"#", "p", "o", "i", "n", "t">>
TagPoints == <<"#", "p", "o", "i", "n", "t", "s">>
TagPlus1 == <<"#", "+", "1">>

\* the tuple of +1 tags tested against the entity tags
PLUS_ONE_TAGS ==
    {TagBall, TagBally, TagOchki, TagScore, TagPoint, TagPoints, TagPlus1}

\* lit occurs in s at position i
LitAt(s, i, lit) ==
    /\ i >= 1
    /\ i + Len(lit) - 1 <= Len(s)
    /\ \A k \in 1..Len(lit) : s[i + k - 1] = lit[k]

\* lit occurs in s at position i, letter case ignored ((?i))
LitAtNoCase(s, i, lit) ==
    /\ i >= 1
    /\ i + Len(lit) - 1 <= Len(s)
    /\ \A k \in 1..Len(lit) : LowerChar(s[i + k - 1]) = lit[k]

\* (^|\s) before position i
StartOrSpace(s, i) == i = 1 \/ IsSpace(s[i - 1])

\* (\s|$) at position i, the position after the match
SpaceOrEnd(s, i) == i > Len(s) \/ IsSpace(s[i])

\* re.search(r'(?<!\w)#challenge1(?!\w)', s), the tag being CHALLENGE_CANON
ChallengeSearch(s) ==
    \E i \in 1..Len(s) :
        /\ LitAt(s, i, CHALLENGE_CANON)
        /\ (i = 1 \/ ~IsWord(s[i - 1]))
        /\ (i + Len(CHALLENGE_CANON) > Len(s)
               \/ ~IsWord(s[i + Len(CHALLENGE_CANON)]))

\* the alternative (^|\s)#\s*\+\s*1(\s|$)
PlusSignSearch(s) ==
    \E i \in 1..Len(s), j \in 1..Len(s), k \in 1..Len(s) :
        /\ i < j /\ j < k
        /\ StartOrSpace(s, i)
        /\ s[i] = "#" /\ s[j] = "+" /\ s[k] = "1"
        /\ \A n \in (i + 1)..(j - 1) : IsSpace(s[n])
        /\ \A n \in (j + 1)..(k - 1) : IsSpace(s[n])
        /\ SpaceOrEnd(s, k + 1)

\* PLUS_ONE_PATTERN.search(s)
PlusOneSearch(s) ==
    \/ PlusSignSearch(s)
    \/ \E lit \in {TagBall, TagBally, TagOchki, TagScore, TagPoint, TagPoints} :
           \E i \in 1..Len(s) :
               /\ StartOrSpace(s, i)
               /\ LitAtNoCase(s, i, lit)
               /\ SpaceOrEnd(s, i + Len(lit))

(***************************************************************************)
(* Strings given to clean_text.                                            *)
(***************************************************************************)
\* the configured tags
Tags == {CHALLENGE_CANON} \cup PLUS_ONE_TAGS

\* str.upper() on the characters of the model
UpperChar(c) ==
    IF \E u \in DOMAIN UpperToLower : UpperToLower[u] = c
    THEN CHOOSE u \in DOMAIN UpperToLower : UpperToLower[u] = c
    ELSE c

Upper(s) == [i \in 1..Len(s) |-> UpperChar(s[i])]

\* all sequences over the set chars of length at most n
SeqsUpTo(chars, n) == UNION {[1..k -> chars] : k \in 0..n}

\* whitespace put before and after a tag
Pads == {<<>>, <<" ">>, <<"TAB", "CR", "LF">>}

\* what is put between the '#' and the letters of a tag: zero-width
\* characters and whitespace
Mids == SeqsUpTo(ZERO_WIDTH \cup {" ", "LF"}, MaxMid)

\* the ways tag t is written: padded, with characters after the '#', in small
\* or in capital letters
TagVariants ==
    [t \in Tags |->
        {pre \o <<"#">> \o mid \o body \o post :
             pre \in Pads, post \in Pads, mid \in Mids,
             body \in {Tail(t), Upper(Tail(t))}}]

\* the characters of the short strings
TextChars == {" ", "LF", "CR", "ZWSP", "#", "s", "S"}

\* the strings clean_text is called on
TextInputs ==
    SeqsUpTo(TextChars, MaxLen) \cup UNION {TagVariants[t] : t \in Tags}

(***************************************************************************)
(* Chats, users and messages.                                              *)
(***************************************************************************)
Chats == {-100, -200, 7}

ChatType(c) ==
    CASE c = -100 -> "group"
      [] c = -200 -> "supergroup"
      [] OTHER -> "private"

Users == {11, 12, 99}

\* from_user.is_bot
IsBot(u) == u = 99

Days == 0..MaxDay

Workers == {1, 2}

Hashtag(o, l) == [type |-> "hashtag", offset |-> o, length |-> l]

\* The contents the updates of the model carry: a string with its entities.
Catalogue ==
    << \* 1: "hi #challenge1", the tag annotated
       [s |-> <<"h", "i", " ">> \o CHALLENGE_CANON,
        entities |-> <<Hashtag(3, 10)>>],
       \* 2: "#ball", the tag annotated
       [s |-> TagBall, entities |-> <<Hashtag(0, 5)>>],
       \* 3: "#ball #challenge1", both tags annotated
       [s |-> TagBall \o <<" ">> \o CHALLENGE_CANON,
        entities |-> <<Hashtag(0, 5), Hashtag(6, 10)>>],
       \* 4: "# +1" without entities
       [s |-> <<"#", " ", "+", "1">>, entities |-> <<>>],
       \* 5: "hi" without tags
       [s |-> <<"h", "i">>, entities |-> <<>>],
       \* 6: "#scores", annotated: no configured tag
       [s |-> TagScore \o <<"s">>, entities |-> <<Hashtag(0, 7)>>],
       \* 7: "#" ZWSP "CHALLENGE1" in capitals, annotated
       [s |-> <<"#", "ZWSP", "CY_CHE", "CY_IE", "CY_EL", "CY_EL", "CY_IE",
                "CY_EN", "CY_DE", "CY_ZHE", "1">>,
        entities |-> <<Hashtag(0, 11)>>],
       \* 8: "#ball #challenge1", only "#ball" annotated
       [s |-> TagBall \o <<" ">> \o CHALLENGE_CANON,
        entities |-> <<Hashtag(0, 5)>>],
       \* 9: "Points" LF "#POINTS" without entities
       [s |-> <<"P", "o", "i", "n", "t", "s", "LF", "#", "P", "O", "I",
                "N", "T", "S">>,
        entities |-> <<>>],
       \* 10: "x#ball" with a span that starts at the '#' and runs past the
       \* end of the text
       [s |-> <<"x">> \o TagBall, entities |-> <<Hashtag(1, 9)>>],
       \* 11: "hi" with a span that starts past the end of the text
       [s |-> <<"h", "i">>, entities |-> <<Hashtag(5, 3)>>] >>

Contents == 1..Len(Catalogue)

ContentTypes == {"text", "photo"}

\* who writes where: two members of the group, one of them also in the
\* supergroup and in a private chat with the bot, and a bot in the group
Senders == {<<-100, 11>>, <<-100, 12>>, <<-200, 11>>, <<7, 11>>, <<-100, 99>>}

\* An update: the chat, the sender, the content type and the content.
Messages ==
    {m \in [chat : Chats, from_user : Users, content_type : ContentTypes,
            content : Contents] : <<m.chat, m.from_user>> \in Senders}

\* the contents sent in the runs of many updates: the challenge tag, a +1
\* tag, no tag, a hashtag that is no configured tag
FeedContents == {1, 2, 5, 6}

Feed == {m \in Messages : m.content \in FeedContents}

\* the updates of the runs with several workers: the text messages of Feed
\* without the +1 tag from every sender, and the +1 tag as text and as
\* caption from user 11 in the group
ConcFeed ==
    {m \in Feed :
         \/ m.content_type = "text" /\ m.content # 2
         \/ m.content = 2 /\ m.chat = -100 /\ m.from_user = 11}

\* the (chat, user, day) triples
Marks == {<<k[1], k[2], d>> : k \in Senders, d \in Days}

\* message.text and message.entities: set on text messages only
MsgText(m) ==
    IF m.content_type = "text" THEN Catalogue[m.content].s ELSE <<>>
MsgEntities(m) ==
    IF m.content_type = "text" THEN Catalogue[m.content].entities ELSE <<>>

\* message.caption and message.caption_entities: set on media messages only
MsgCaption(m) ==
    IF m.content_type # "text" THEN Catalogue[m.content].s ELSE <<>>
MsgCaptionEntities(m) ==
    IF m.content_type # "text" THEN Catalogue[m.content].entities ELSE <<>>

\* variant of is_group that lets private chats through
is_group_or_private(m) ==
    ChatType(m.chat) \in {"group", "supergroup", "private"}

is_group(m) == ChatType(m.chat) \in {"group", "supergroup"}

(***************************************************************************)
(* The database: tables scores and last_tag, each a set of rows.           *)
(***************************************************************************)
ScoreRows(sc, c, u) == {r \in sc : r.chat_id = c /\ r.user_id = u}

\* variant of InsertScoreRow that replaces the row it finds (OR REPLACE)
InsertScoreRowReplace(sc, c, u) ==
    (sc \ ScoreRows(sc, c, u))
        \cup {[chat_id |-> c, user_id |-> u, points |-> 0]}

\* INSERT INTO scores ... VALUES (?, ?, 0, ...) ON CONFLICT DO NOTHING
InsertScoreRow(sc, c, u) ==
    IF ScoreRows(sc, c, u) = {}
    THEN sc \cup {[chat_id |-> c, user_id |-> u, points |-> 0]}
    ELSE sc

\* variant of UpdatePoints that stores the amount instead of adding it
UpdatePointsOverwrite(sc, c, u, amount) ==
    {IF r.chat_id = c /\ r.user_id = u
     THEN [r EXCEPT !.points = amount]
     ELSE r : r \in sc}

\* UPDATE scores SET points = points + ? WHERE chat_id = ? AND user_id = ?
UpdatePoints(sc, c, u, amount) ==
    {IF r.chat_id = c /\ r.user_id = u
     THEN [r EXCEPT !.points = @ + amount]
     ELSE r : r \in sc}

\* SELECT points FROM scores WHERE ...; int(row[0]) if row else 0
get_points(sc, c, u) ==
    IF ScoreRows(sc, c, u) = {} THEN 0
    ELSE (CHOOSE r \in ScoreRows(sc, c, u) : TRUE).points

\* variant of add_point whose INSERT stores the amount, which the UPDATE then
\* adds once more
add_point_twice(sc, c, u, amount) ==
    UpdatePoints(IF ScoreRows(sc, c, u) = {}
                 THEN sc \cup {[chat_id |-> c, user_id |-> u,
                                points |-> amount]}
                 ELSE sc,
                 c, u, amount)

\* the table after add_point's transaction (insert, update, commit)
add_point(sc, c, u, amount) ==
    UpdatePoints(InsertScoreRow(sc, c, u), c, u, amount)

RECURSIVE SumPoints(_)
SumPoints(rows) ==
    IF rows = {} THEN 0
    ELSE LET r == CHOOSE x \in rows : TRUE
         IN  r.points + SumPoints(rows \ {r})

\* SELECT SUM(points) FROM scores WHERE chat_id = ?
get_total(sc, c) == SumPoints({r \in sc : r.chat_id = c})

\* ORDER BY points DESC, user_id ASC
TopBefore(a, b) ==
    \/ a.points > b.points
    \/ a.points = b.points /\ a.user_id < b.user_id

RECURSIVE SortTop(_)
SortTop(rows) ==
    IF rows = {} THEN <<>>
    ELSE LET first == CHOOSE a \in rows :
                          \A b \in rows \ {a} : TopBefore(a, b)
         IN  <<first>> \o SortTop(rows \ {first})

\* SELECT user_id, points ... WHERE chat_id = ? ORDER BY ... LIMIT ?
get_top(sc, c, limit) ==
    LET sorted == SortTop({r \in sc : r.chat_id = c})
    IN  SubSeq(sorted, 1, Min(limit, Len(sorted)))

\* variant of TagRows that looks the rows up by user alone
TagRowsByUser(lt, c, u) == {r \in lt : r.user_id = u}

TagRows(lt, c, u) == {r \in lt : r.chat_id = c /\ r.user_id = u}

\* variant of AlreadyToday with the comparison inverted
AlreadyTodayInverted(lt, c, u, d) == \E r \in TagRows(lt, c, u) : r.day # d

\* can_post_tag's test: a row exists and its day is the today read before
AlreadyToday(lt, c, u, d) == \E r \in TagRows(lt, c, u) : r.day = d

\* variant of UpsertLastTag that keeps the row it finds (DO NOTHING)
UpsertLastTagIgnore(lt, c, u, d) ==
    IF TagRows(lt, c, u) = {}
    THEN lt \cup {[chat_id |-> c, user_id |-> u, day |-> d]}
    ELSE lt

\* variant of UpsertLastTag that stores the day after d
UpsertLastTagAhead(lt, c, u, d) ==
    IF TagRows(lt, c, u) = {}
    THEN lt \cup {[chat_id |-> c, user_id |-> u, day |-> d + 1]}
    ELSE {IF r.chat_id = c /\ r.user_id = u
          THEN [r EXCEPT !.day = d + 1]
          ELSE r : r \in lt}

\* INSERT INTO last_tag ... ON CONFLICT(chat_id, user_id) DO UPDATE SET day
UpsertLastTag(lt, c, u, d) ==
    IF TagRows(lt, c, u) = {}
    THEN lt \cup {[chat_id |-> c, user_id |-> u, day |-> d]}
    ELSE {IF r.chat_id = c /\ r.user_id = u THEN [r EXCEPT !.day = d] ELSE r :
              r \in lt}

(***************************************************************************)
(* State.                                                                  *)
(*   scores, last_tag  the two tables                                      *)
(*   today             current_local_date()                                *)
(*   pc, job           per handler invocation: where it stands and the     *)
(*                     locals it still uses (message.chat.id,              *)
(*                     message.from_user.id, the amount of the branch      *)
(*                     taken, can_post_tag's today, the answer it has      *)
(*                     computed and not yet sent)                          *)
(*   outcome           what the bot did last: the answer of the handler    *)
(*                     that finished last, "none" once a handler has       *)
(*                     entered a tag branch                                *)
(*   awards, rejected  per (chat, user, day): the amounts add_point has   *)
(*                     committed and the number of rejection replies sent, *)
(*                     day being the today the can_post_tag call read      *)
(*   issued            per chat: the sum of the amounts of the award       *)
(*                     replies sent                                        *)
(*   received          number of updates delivered so far                  *)
(*   msg               SpecMsg only: the one update that is delivered      *)
(*   s_raw, s_clean    SpecText only: a string and what clean_text made    *)
(*                     of it                                               *)
(*   calls             SpecText only: the number of clean_text calls made  *)
(***************************************************************************)
NoMessage ==
    [chat |-> 0, from_user |-> 0, content_type |-> "none", content |-> 0]

Answer(kind, amount, new_points, rows) ==
    [kind |-> kind, amount |-> amount, new_points |-> new_points,
     rows |-> rows]

NoAnswer == Answer("none", 0, 0, <<>>)

NoJob ==
    [chat_id |-> 0, user_id |-> 0, amount |-> 0, day |-> 0,
     answer |-> NoAnswer]

\* init_db: both tables empty
InitWith(m, t) ==
    /\ scores = {}
    /\ last_tag = {}
    /\ today = 0
    /\ pc = [w \in Workers |-> "idle"]
    /\ job = [w \in Workers |-> NoJob]
    /\ outcome = NoAnswer
    /\ awards = [k \in Marks |-> <<>>]
    /\ rejected = [k \in Marks |-> 0]
    /\ issued = [c \in Chats |-> 0]
    /\ received = 0
    /\ msg = m
    /\ s_raw = t
    /\ s_clean = <<>>
    /\ calls = 0

Init == InitWith(NoMessage, <<>>)

\* variant of Return in which can_post_tag was called before the tags were
\* tested: a message without a match has marked the day
ReturnConsuming(w, m, kind) ==
    /\ outcome' = Answer(kind, 0, 0, <<>>)
    /\ last_tag' = IF kind = "nomatch"
                   THEN UpsertLastTag(last_tag, m.chat, m.from_user, today)
                   ELSE last_tag
    /\ UNCHANGED <<scores, today, pc, job, awards, rejected, issued>>

\* the handler of message m returns without a storage call and without a
\* reply
Return(w, m, kind) ==
    /\ outcome' = Answer(kind, 0, 0, <<>>)
    /\ UNCHANGED <<scores, last_tag, today, pc, job, awards, rejected, issued>>

\* the handler enters a tag branch: can_post_tag is called next, nothing is
\* answered yet
EnterBranch(w, m, amount) ==
    /\ pc' = [pc EXCEPT ![w] = "can_post_tag"]
    /\ job' = [job EXCEPT ![w] = [chat_id |-> m.chat, user_id |-> m.from_user,
                                  amount |-> amount, day |-> 0,
                                  answer |-> NoAnswer]]
    /\ outcome' = NoAnswer
    /\ UNCHANGED <<scores, last_tag, today, awards, rejected, issued>>

\* variant of text_amount with the +1 branch tested first
text_amount_plus_first(m) ==
    LET raw == MsgText(m)
        cleaned == clean_text(raw)
        tags == extract_hashtags_from(MsgText(m), MsgEntities(m))
    IN  IF (\E t \in tags : t \in PLUS_ONE_TAGS) \/ PlusOneSearch(cleaned) THEN 1
        ELSE IF CHALLENGE_CANON \in tags \/ ChallengeSearch(cleaned) THEN 5
        ELSE 0

\* the amount of the branch handle_group_text takes (0: none)
text_amount(m) ==
    LET raw == MsgText(m)
        cleaned == clean_text(raw)
        tags == extract_hashtags_from(MsgText(m), MsgEntities(m))
    IN  IF CHALLENGE_CANON \in tags \/ ChallengeSearch(cleaned) THEN 5
        ELSE IF (\E t \in tags : t \in PLUS_ONE_TAGS) \/ PlusOneSearch(cleaned)
             THEN 1
             ELSE 0

\* variant of media_amount that reads message.entities, which a media
\* message does not have, instead of message.caption_entities
media_amount_entities(m) ==
    LET caption == MsgCaption(m)
        cleaned == clean_text(caption)
        tags == extract_hashtags_from(MsgCaption(m), MsgEntities(m))
    IN  IF CHALLENGE_CANON \in tags \/ ChallengeSearch(cleaned) THEN 5
        ELSE IF (\E t \in tags : t \in PLUS_ONE_TAGS) \/ PlusOneSearch(cleaned)
             THEN 1
             ELSE 0

\* the amount of the branch handle_group_media takes (0: none)
media_amount(m) ==
    LET caption == MsgCaption(m)
        cleaned == clean_text(caption)
        tags == extract_hashtags_from(MsgCaption(m), MsgCaptionEntities(m))
    IN  IF CHALLENGE_CANON \in tags \/ ChallengeSearch(cleaned) THEN 5
        ELSE IF (\E t \in tags : t \in PLUS_ONE_TAGS) \/ PlusOneSearch(cleaned)
             THEN 1
             ELSE 0

\* text_amount and media_amount of every message, computed once
TextAmount == [m \in Messages |-> text_amount(m)]
MediaAmount == [m \in Messages |-> media_amount(m)]

\* handle_group_text up to the call of can_post_tag
handle_group_text(w, m) ==
    /\ pc[w] = "idle"
    /\ m.content_type = "text"
    /\ received' = received + 1
    /\ IF ~is_group(m) \/ IsBot(m.from_user) THEN Return(w, m, "ignored")
       ELSE IF TextAmount[m] = 0 THEN Return(w, m, "nomatch")
       ELSE EnterBranch(w, m, TextAmount[m])
    /\ UNCHANGED <<msg, s_raw, s_clean, calls>>

\* handle_group_media up to the call of can_post_tag
handle_group_media(w, m) ==
    /\ pc[w] = "idle"
    /\ m.content_type = "photo"
    /\ received' = received + 1
    /\ IF ~is_group(m) \/ IsBot(m.from_user) THEN Return(w, m, "ignored")
       ELSE IF MediaAmount[m] = 0 THEN Return(w, m, "nomatch")
       ELSE EnterBranch(w, m, MediaAmount[m])
    /\ UNCHANGED <<msg, s_raw, s_clean, calls>>

\* can_post_tag: today = current_local_date().isoformat(), read before the
\* connection is opened
ReadToday(w) ==
    /\ pc[w] = "can_post_tag"
    /\ pc' = [pc EXCEPT ![w] = "select_last_tag"]
    /\ job' = [job EXCEPT ![w].day = today]
    /\ UNCHANGED <<scores, last_tag, today, outcome, awards, rejected, issued,
                   received, msg, s_raw, s_clean, calls>>

\* variant of SelectLastTag without the return after the rejection: the
\* handler goes on to add_point
SelectLastTagFallThrough(w) ==
    /\ pc[w] = "select_last_tag"
    /\ IF AlreadyToday(last_tag, job[w].chat_id, job[w].user_id, job[w].day)
       THEN /\ pc' = [pc EXCEPT ![w] = "add_point"]
            /\ job' = [job EXCEPT ![w].answer = Answer("rejected", 0, 0, <<>>)]
       ELSE /\ pc' = [pc EXCEPT ![w] = "upsert"]
            /\ UNCHANGED job
    /\ UNCHANGED <<scores, last_tag, today, outcome, awards, rejected, issued,
                   received, msg, s_raw, s_clean, calls>>

\* can_post_tag: the row is selected and its day compared with the today
\* read before; on "already today" it returns False and the handler has the
\* rejection to answer
SelectLastTag(w) ==
    /\ pc[w] = "select_last_tag"
    /\ IF AlreadyToday(last_tag, job[w].chat_id, job[w].user_id, job[w].day)
       THEN /\ pc' = [pc EXCEPT ![w] = "reply"]
            /\ job' = [job EXCEPT ![w].answer = Answer("rejected", 0, 0, <<>>)]
       ELSE /\ pc' = [pc EXCEPT ![w] = "upsert"]
            /\ UNCHANGED job
    /\ UNCHANGED <<scores, last_tag, today, outcome, awards, rejected, issued,
                   received, msg, s_raw, s_clean, calls>>

\* can_post_tag: the upsert of today's mark and its commit; returns True
WriteLastTag(w) ==
    /\ pc[w] = "upsert"
    /\ last_tag' = UpsertLastTag(last_tag, job[w].chat_id, job[w].user_id,
                                 job[w].day)
    /\ pc' = [pc EXCEPT ![w] = "add_point"]
    /\ UNCHANGED <<scores, today, job, outcome, awards, rejected, issued,
                   received, msg, s_raw, s_clean, calls>>

\* add_point: the insert, the update and their commit
AddPoint(w) ==
    /\ pc[w] = "add_point"
    /\ LET c == job[w].chat_id
           u == job[w].user_id
           amount == job[w].amount
       IN  /\ scores' = add_point(scores, c, u, amount)
           /\ awards' = [awards EXCEPT ![c, u, job[w].day] = Append(@, amount)]
    /\ pc' = [pc EXCEPT ![w] = "select_points"]
    /\ UNCHANGED <<last_tag, today, job, outcome, rejected, issued, received,
                   msg, s_raw, s_clean, calls>>

\* add_point: the SELECT after the commit and the return of its result, the
\* new balance the handler has to show
SelectPoints(w) ==
    /\ pc[w] = "select_points"
    /\ job' = [job EXCEPT ![w].answer =
                   Answer("awarded", job[w].amount,
                          get_points(scores, job[w].chat_id, job[w].user_id),
                          <<>>)]
    /\ pc' = [pc EXCEPT ![w] = "reply"]
    /\ UNCHANGED <<scores, last_tag, today, outcome, awards, rejected, issued,
                   received, msg, s_raw, s_clean, calls>>

\* the handler sends the answer it has computed (reply_autodel,
\* message.reply) and returns
Reply(w) ==
    /\ pc[w] = "reply"
    /\ outcome' = job[w].answer
    /\ rejected' = IF job[w].answer.kind = "rejected"
                   THEN [rejected EXCEPT
                             ![job[w].chat_id, job[w].user_id, job[w].day]
                                 = @ + 1]
                   ELSE rejected
    /\ issued' = IF job[w].answer.kind = "awarded"
                 THEN [issued EXCEPT ![job[w].chat_id] = @ + job[w].amount]
                 ELSE issued
    /\ pc' = [pc EXCEPT ![w] = "idle"]
    /\ job' = [job EXCEPT ![w] = NoJob]
    /\ UNCHANGED <<scores, last_tag, today, awards, received, msg, s_raw,
                   s_clean, calls>>

\* a storage call raises (sqlite3.Error) or the process stops before it: the
\* handler ends there, what was committed stays
StorageError(w) ==
    /\ pc[w] \in {"select_last_tag", "upsert", "add_point", "select_points"}
    /\ pc' = [pc EXCEPT ![w] = "idle"]
    /\ job' = [job EXCEPT ![w] = NoJob]
    /\ outcome' = Answer("error", 0, 0, <<>>)
    /\ UNCHANGED <<scores, last_tag, today, awards, rejected, issued, received,
                   msg, s_raw, s_clean, calls>>

\* the local date moves on
Tick ==
    /\ today < MaxDay
    /\ today' = today + 1
    /\ UNCHANGED <<scores, last_tag, pc, job, outcome, awards, rejected, issued,
                   received, msg, s_raw, s_clean, calls>>

\* a command handler up to its reply: the answer is computed from what its
\* SELECT reads and is sent afterwards
Command(w, answer) ==
    /\ pc[w] = "idle"
    /\ received' = received + 1
    /\ pc' = [pc EXCEPT ![w] = "reply"]
    /\ job' = [job EXCEPT ![w] = [NoJob EXCEPT !.answer = answer]]
    /\ outcome' = NoAnswer
    /\ UNCHANGED <<scores, last_tag, today, awards, rejected, issued, msg,
                   s_raw, s_clean, calls>>

cmd_start(w) == Command(w, Answer("help", 0, 0, <<>>))

cmd_balance(w, c, u) ==
    Command(w, Answer("balance", 0, get_points(scores, c, u), <<>>))

cmd_top(w, c) == Command(w, Answer("top", 0, 0, get_top(scores, c, 10)))

cmd_all(w, c) == Command(w, Answer("total", 0, get_total(scores, c), <<>>))

\* cleaned = clean_text(raw), and clean_text again on what it returned
CleanText ==
    /\ calls < MaxCalls
    /\ s_clean' = clean_text(IF calls = 0 THEN s_raw ELSE s_clean)
    /\ calls' = calls + 1
    /\ UNCHANGED <<scores, last_tag, today, pc, job, outcome, awards, rejected,
                   issued, received, msg, s_raw>>

\* no other handler invocation is between its first and its last storage call
Alone(w) == \A v \in Workers \ {w} : pc[v] = "idle"

\* the dispatcher has fewer than n updates behind it and starts a handler
\* for the next one
Deliver(w, n) == received < n /\ Alone(w)

\* One event loop: a handler runs from its start to its reply without another
\* handler in between (it awaits nothing before the reply); storage works.
Next ==
    \/ \E w \in Workers, m \in Feed :
           Deliver(w, MaxMsgs) /\ handle_group_text(w, m)
    \/ \E w \in Workers, m \in Feed :
           Deliver(w, MaxMsgs) /\ handle_group_media(w, m)
    \/ \E w \in Workers : Alone(w) /\ ReadToday(w)
    \/ \E w \in Workers : Alone(w) /\ SelectLastTag(w)
    \/ \E w \in Workers : Alone(w) /\ WriteLastTag(w)
    \/ \E w \in Workers : Alone(w) /\ AddPoint(w)
    \/ \E w \in Workers : Alone(w) /\ SelectPoints(w)
    \/ \E w \in Workers : Alone(w) /\ Reply(w)
    \/ \E w \in Workers : Deliver(w, MaxMsgs) /\ cmd_start(w)
    \/ \E w \in Workers, k \in Senders :
           Deliver(w, MaxMsgs) /\ cmd_balance(w, k[1], k[2])
    \/ \E w \in Workers, c \in Chats : Deliver(w, MaxMsgs) /\ cmd_top(w, c)
    \/ \E w \in Workers, c \in Chats : Deliver(w, MaxMsgs) /\ cmd_all(w, c)
    \/ Tick

Spec == Init /\ [][Next]_vars

\* Handlers of several workers on one database file, interleaved at the
\* storage calls; storage works.
NextConc ==
    \/ \E w \in Workers, m \in ConcFeed :
           received < MaxConcMsgs /\ handle_group_text(w, m)
    \/ \E w \in Workers, m \in ConcFeed :
           received < MaxConcMsgs /\ handle_group_media(w, m)
    \/ \E w \in Workers : ReadToday(w)
    \/ \E w \in Workers : SelectLastTag(w)
    \/ \E w \in Workers : WriteLastTag(w)
    \/ \E w \in Workers : AddPoint(w)
    \/ \E w \in Workers : SelectPoints(w)
    \/ \E w \in Workers : Reply(w)
    \/ \E w \in Workers : received < MaxConcMsgs /\ cmd_start(w)
    \/ \E w \in Workers, k \in Senders :
           received < MaxConcMsgs /\ cmd_balance(w, k[1], k[2])
    \/ \E w \in Workers, c \in Chats :
           received < MaxConcMsgs /\ cmd_top(w, c)
    \/ \E w \in Workers, c \in Chats :
           received < MaxConcMsgs /\ cmd_all(w, c)
    \/ Tick

SpecConc == Init /\ [][NextConc]_vars

\* As SpecConc, and a storage call may fail.
NextFault ==
    \/ NextConc
    \/ \E w \in Workers : StorageError(w)

SpecFault == Init /\ [][NextFault]_vars

\* As Spec, and a storage call may fail: one event loop whose handlers end
\* with the exception of the call that failed.
NextLoopFault ==
    \/ Next
    \/ \E w \in Workers : Alone(w) /\ StorageError(w)

SpecLoopFault == Init /\ [][NextLoopFault]_vars

\* One update, drawn from Messages, delivered up to MaxMsgs times to the
\* event loop.
InitMsg == \E m \in Messages : InitWith(m, <<>>)

NextMsg ==
    \/ \E w \in Workers : Deliver(w, MaxMsgs) /\ handle_group_text(w, msg)
    \/ \E w \in Workers : Deliver(w, MaxMsgs) /\ handle_group_media(w, msg)
    \/ \E w \in Workers : Alone(w) /\ ReadToday(w)
    \/ \E w \in Workers : Alone(w) /\ SelectLastTag(w)
    \/ \E w \in Workers : Alone(w) /\ WriteLastTag(w)
    \/ \E w \in Workers : Alone(w) /\ AddPoint(w)
    \/ \E w \in Workers : Alone(w) /\ SelectPoints(w)
    \/ \E w \in Workers : Alone(w) /\ Reply(w)
    \/ Tick

SpecMsg == InitMsg /\ [][NextMsg]_vars

\* One string, drawn from TextInputs, normalised by clean_text.
InitText == \E t \in TextInputs : InitWith(NoMessage, t)

NextText == CleanText

SpecText == InitText /\ [][NextText]_vars

(***************************************************************************)
(* Properties.                                                             *)
(***************************************************************************)
RECURSIVE SeqSum(_)
SeqSum(q) == IF q = <<>> THEN 0 ELSE Head(q) + SeqSum(Tail(q))

RECURSIVE AwardedUpTo(_, _, _)
\* the amounts awarded to (c, u) on the days 0..d
AwardedUpTo(c, u, d) ==
    IF d < 0 THEN 0 ELSE SeqSum(awards[c, u, d]) + AwardedUpTo(c, u, d - 1)

\* the points table sc stores for (c, u), 0 without a row
BalanceIn(sc, c, u) ==
    LET rows == {r \in sc : r.chat_id = c /\ r.user_id = u}
    IN  IF rows = {} THEN 0 ELSE (CHOOSE r \in rows : TRUE).points

Balance(c, u) == BalanceIn(scores, c, u)

RECURSIVE AwardCountUpTo(_, _, _)
\* the number of awards to (c, u) on the days 0..d
AwardCountUpTo(c, u, d) ==
    IF d < 0 THEN 0 ELSE Len(awards[c, u, d]) + AwardCountUpTo(c, u, d - 1)

\* handler invocations that stand in a tag branch for (c, u)
InBranch(c, u) ==
    {w \in Workers :
         pc[w] # "idle" /\ job[w].chat_id = c /\ job[w].user_id = u}

MaxOf(S) == CHOOSE x \in S : \A y \in S : y <= x

\* the day marked for (c, u) is d
Marked(c, u, d) ==
    \E r \in last_tag : r.chat_id = c /\ r.user_id = u /\ r.day = d

\* C1: in the event loop, the qualifying messages of one (chat, user) decided
\* on one day are answered with exactly one award and otherwise with the
\* rejection, and the balance is the sum of these single awards.
C1_OneAwardPerDay ==
    /\ \A k \in Marks :
           Len(awards[k]) + rejected[k] >= 1 => Len(awards[k]) = 1
    /\ \A k \in Senders : Balance(k[1], k[2]) = AwardedUpTo(k[1], k[2], MaxDay)

\* three qualifying messages of one day: one award, two rejections
C1_Witness == \E k \in Marks : Len(awards[k]) = 1 /\ rejected[k] = 2

\* C2: two qualifying messages of one (chat, user) and one day, handled
\* interleaved, are answered with one award and one rejection, never with
\* two awards.
C2_InterleavedOneAward ==
    \A k \in Marks :
        /\ Len(awards[k]) <= 1
        /\ Len(awards[k]) + rejected[k] = 2 =>
               Len(awards[k]) = 1 /\ rejected[k] = 1

\* C3: whenever no handler stands between can_post_tag and add_point for a
\* (chat, user), its mark is today exactly if today's award was added to its
\* points.
C3_MarkIffCredited ==
    \A k \in Senders :
        (\A w \in Workers :
             ~(pc[w] = "add_point" /\ job[w].chat_id = k[1]
                   /\ job[w].user_id = k[2]))
            => (Marked(k[1], k[2], today) <=> awards[k[1], k[2], today] # <<>>)

\* C4: day rollover.  A mark of an earlier day never rejects: a rejection on
\* day d presupposes an award on day d.  And the mark is overwritten: once
\* the awards to a (chat, user) are made, its single last_tag row holds the
\* latest day with an award.
C4_DayRollover ==
    \A k \in Senders :
        LET days == {d \in Days : awards[k[1], k[2], d] # <<>>}
            rows == {r \in last_tag : r.chat_id = k[1] /\ r.user_id = k[2]}
        IN  /\ \A d \in Days :
                   rejected[k[1], k[2], d] > 0 => d \in days
            /\ (InBranch(k[1], k[2]) = {} /\ days # {}) =>
                   rows = {[chat_id |-> k[1], user_id |-> k[2],
                            day |-> MaxOf(days)]}

\* awarded on day 0 and again on day 1, the mark now being day 1
C4_Witness ==
    /\ awards[-100, 11, 0] # <<>>
    /\ awards[-100, 11, 1] # <<>>
    /\ last_tag = {[chat_id |-> -100, user_id |-> 11, day |-> 1]}

\* the content of m holds the challenge tag and the +1 tag "#ball"
BothTags(m) ==
    /\ m \in Messages
    /\ \E i \in 1..Len(Catalogue[m.content].s) :
           LitAt(Catalogue[m.content].s, i, CHALLENGE_CANON)
    /\ \E i \in 1..Len(Catalogue[m.content].s) :
           LitAt(Catalogue[m.content].s, i, TagBall)

\* C5: a message that holds the challenge tag and a +1 tag is awarded 5, once:
\* every award it gets is 5, the balance is 5 per award, and there are no
\* more add_point calls than deliveries of the message.
C5_MaxOnce ==
    BothTags(msg) =>
        /\ \A k \in Marks : \A i \in 1..Len(awards[k]) : awards[k][i] = 5
        /\ \A w \in Workers : pc[w] # "idle" => job[w].amount = 5
        /\ outcome.kind = "awarded" => outcome.amount = 5
        /\ \A k \in Senders :
               /\ Balance(k[1], k[2]) = 5 * AwardCountUpTo(k[1], k[2], MaxDay)
               /\ AwardCountUpTo(k[1], k[2], MaxDay)
                      + Cardinality({w \in InBranch(k[1], k[2]) :
                                         pc[w] \notin {"select_points",
                                                       "reply"}})
                      <= received

\* such a message was awarded: 5 points, balance 5
C5_Witness == BothTags(msg) /\ outcome = Answer("awarded", 5, 5, <<>>)

\* C6: the scenario, step by step.  From no record a challenge message adds
\* 5 and is answered Awarded(5, 5); a +1 message on a day with that award is
\* rejected and leaves the balance 5; a +1 message on the next day is let
\* through, adds 1 to the 5 and is answered Awarded(1, 6).
C6_Scenario ==
    [][\A w \in Workers, k \in Senders :
           (job[w].chat_id = k[1] /\ job[w].user_id = k[2]) =>
               /\ (/\ pc[w] = "add_point" /\ pc'[w] # "add_point"
                   /\ job[w].amount = 5
                   /\ \A r \in scores :
                          ~(r.chat_id = k[1] /\ r.user_id = k[2]))
                      => /\ BalanceIn(scores', k[1], k[2]) = 5
                         /\ pc'[w] = "select_points"
               /\ (/\ pc[w] = "select_points" /\ pc'[w] # "select_points"
                   /\ job[w].amount = 5
                   /\ AwardedUpTo(k[1], k[2], MaxDay) = 5)
                      => /\ job'[w].answer = Answer("awarded", 5, 5, <<>>)
                         /\ pc'[w] = "reply"
               /\ (/\ pc[w] = "select_last_tag" /\ pc'[w] # "select_last_tag"
                   /\ job[w].amount = 1
                   /\ awards[k[1], k[2], job[w].day] = <<5>>
                   /\ Balance(k[1], k[2]) = 5)
                      => /\ job'[w].answer.kind = "rejected"
                         /\ pc'[w] = "reply"
                         /\ BalanceIn(scores', k[1], k[2]) = 5
               /\ (/\ pc[w] = "select_last_tag" /\ pc'[w] # "select_last_tag"
                   /\ job[w].amount = 1
                   /\ job[w].day > 0
                   /\ awards[k[1], k[2], job[w].day] = <<>>
                   /\ awards[k[1], k[2], job[w].day - 1] = <<5>>)
                      => pc'[w] = "upsert"
               /\ (/\ pc[w] = "add_point" /\ pc'[w] # "add_point"
                   /\ job[w].amount = 1
                   /\ job[w].day > 0
                   /\ awards[k[1], k[2], job[w].day - 1] = <<5>>
                   /\ Balance(k[1], k[2]) = 5)
                      => /\ BalanceIn(scores', k[1], k[2]) = 6
                         /\ pc'[w] = "select_points"
               /\ (/\ pc[w] = "select_points" /\ pc'[w] # "select_points"
                   /\ job[w].amount = 1
                   /\ job[w].day > 0
                   /\ awards[k[1], k[2], job[w].day - 1] = <<5>>
                   /\ awards[k[1], k[2], job[w].day] = <<1>>
                   /\ AwardedUpTo(k[1], k[2], MaxDay) = 6)
                      => /\ job'[w].answer = Answer("awarded", 1, 6, <<>>)
                         /\ pc'[w] = "reply"
               /\ (pc[w] = "reply" /\ pc'[w] # "reply")
                      => /\ outcome' = job[w].answer
                         /\ pc'[w] = "idle"
                         /\ BalanceIn(scores', k[1], k[2])
                                = Balance(k[1], k[2])]_vars

\* the three messages of the scenario were answered
C6_Witness ==
    /\ awards[-100, 11, 0] = <<5>>
    /\ rejected[-100, 11, 0] = 1
    /\ awards[-100, 11, 1] = <<1>>
    /\ outcome = Answer("awarded", 1, 6, <<>>)
    /\ Balance(-100, 11) = 6

\* the rows of table t with key (c, u)
RowsOf(t, c, u) == {r \in t : r.chat_id = c /\ r.user_id = u}

\* C7: awards are independent per (chat, user).  The rows of a key change
\* only in a step of a handler of that key, and a rejection of a key rests on
\* a last_tag row of that key, so an award to another key never costs a
\* (chat, user) its first award of the day.
C7_Independence ==
    /\ [](\A k \in Marks :
              rejected[k] > 0 => RowsOf(last_tag, k[1], k[2]) # {})
    /\ [][\A k \in Senders :
              (\/ RowsOf(scores', k[1], k[2]) # RowsOf(scores, k[1], k[2])
               \/ RowsOf(last_tag', k[1], k[2]) # RowsOf(last_tag, k[1], k[2]))
                  => \E w \in Workers :
                         /\ job[w].chat_id = k[1] /\ job[w].user_id = k[2]
                         /\ pc[w] \in {"upsert", "add_point"}
                         /\ pc'[w] # pc[w]]_vars

\* user 11 was awarded in the group and in the supergroup on day 0
C7_Witness ==
    /\ awards[-100, 11, 0] # <<>>
    /\ awards[-200, 11, 0] # <<>>
    /\ \A k \in Marks : rejected[k] = 0

\* C8: a message answered NoMatch has no side effect: the step that answers
\* it changes no row and starts no can_post_tag and no add_point.
C8_NoMatchNoEffect ==
    [][(received' = received + 1 /\ outcome'.kind = "nomatch") =>
           /\ scores' = scores
           /\ last_tag' = last_tag
           /\ pc' = pc
           /\ job' = job
           /\ awards' = awards
           /\ rejected' = rejected]_vars

\* a message was answered NoMatch while the tables hold rows
C8_Witness == outcome.kind = "nomatch" /\ scores # {} /\ last_tag # {}

\* C9: a handler decides on the rejection only when its SELECT finds the
\* mark of the (chat, user) to be the day its can_post_tag call read as
\* today; from that decision to the end of the handler none of its steps
\* changes a row or adds points, and it ends with the rejection reply.
C9_RejectionNoEffect ==
    [][/\ \A w \in Workers :
              /\ (pc[w] = "select_last_tag" /\ pc'[w] # pc[w]
                      /\ job'[w].answer.kind = "rejected") =>
                     /\ \E r \in RowsOf(last_tag, job[w].chat_id,
                                        job[w].user_id) : r.day = job[w].day
                     /\ job[w].day <= today
                     /\ pc'[w] = "reply"
                     /\ scores' = scores
                     /\ last_tag' = last_tag
                     /\ awards' = awards
              /\ (job[w].answer.kind = "rejected" /\ pc'[w] # pc[w]) =>
                     /\ pc[w] = "reply"
                     /\ pc'[w] = "idle"
                     /\ outcome'.kind = "rejected"
                     /\ scores' = scores
                     /\ last_tag' = last_tag
                     /\ awards' = awards
       /\ \A k \in Marks :
              rejected'[k] # rejected[k] =>
                  /\ rejected'[k] = rejected[k] + 1
                  /\ \E w \in Workers :
                         /\ job[w].chat_id = k[1] /\ job[w].user_id = k[2]
                         /\ job[w].day = k[3]
                         /\ job[w].answer.kind = "rejected"
                         /\ pc[w] = "reply" /\ pc'[w] = "idle"]_vars

\* a qualifying message was rejected
C9_Witness ==
    outcome.kind = "rejected" /\ \E k \in Marks : rejected[k] = 1

\* C10: at most one scores row per (chat, user), points never negative; in
\* every step the points of a key stay or grow, and they change only in the
\* add_point step of a handler of that key, by its amount.
C10_ScoresInvariant ==
    /\ [](/\ \A r \in scores : r.points >= 0
          /\ \A r1 \in scores, r2 \in scores :
                 (r1.chat_id = r2.chat_id /\ r1.user_id = r2.user_id)
                     => r1 = r2)
    /\ [][\A k \in Senders :
              /\ BalanceIn(scores', k[1], k[2]) >= BalanceIn(scores, k[1], k[2])
              /\ RowsOf(scores', k[1], k[2]) # RowsOf(scores, k[1], k[2])
                     => \E w \in Workers :
                            /\ job[w].chat_id = k[1] /\ job[w].user_id = k[2]
                            /\ pc[w] = "add_point"
                            /\ pc'[w] = "select_points"
                            /\ job[w].amount \in {1, 5}
                            /\ BalanceIn(scores', k[1], k[2])
                                   = BalanceIn(scores, k[1], k[2])
                                         + job[w].amount]_vars

\* a key holds the points of two awards
C10_Witness == \E r \in scores : r.points > 5

\* C11: no mark lies in the future: the day of every last_tag row, and the
\* day a can_post_tag call is about to write, is not later than the current
\* local date (which only moves forward).
C11_MarkNotInFuture ==
    /\ \A r \in last_tag : r.day <= today
    /\ \A w \in Workers :
           pc[w] \in {"select_last_tag", "upsert"} => job[w].day <= today

\* after the date moved on: a mark of today beside a mark of an earlier day
C11_Witness ==
    /\ today > 0
    /\ \E r \in last_tag : r.day = today
    /\ \E r \in last_tag : r.day < today

\* the tags extract_hashtags_from takes from the spans of message m
EntityTags(m) ==
    extract_hashtags_from(Catalogue[m.content].s, Catalogue[m.content].entities)

\* C12: matching precedence.  A message whose entity tags hold a +1 tag and
\* not the challenge tag is decided by the entity match: the branch it enters
\* and every award it gets is 1 point, whatever its raw text holds.
C12_EntityPrecedence ==
    (/\ msg \in Messages
     /\ \E t \in EntityTags(msg) : t \in PLUS_ONE_TAGS
     /\ CHALLENGE_CANON \notin EntityTags(msg))
        => /\ \A w \in Workers : pc[w] # "idle" => job[w].amount = 1
           /\ \A k \in Marks : \A i \in 1..Len(awards[k]) : awards[k][i] = 1
           /\ outcome.kind = "awarded" => outcome.amount = 1

\* C13: storage failures in the event loop.  The step in which a storage
\* call fails answers an error, changes no row and ends the handler (no
\* retry); no (chat, user, day) is awarded twice; and no recorded award is
\* lost: a mark that no handler is still working on has its points added.
C13_FailureSurfaced ==
    /\ [][\A w \in Workers :
              (pc[w] # "idle" /\ pc'[w] = "idle" /\ outcome'.kind = "error")
                  => /\ scores' = scores
                     /\ last_tag' = last_tag
                     /\ job'[w] = NoJob
                     /\ received' = received]_vars
    /\ [](\A k \in Marks : Len(awards[k]) <= 1)
    /\ [](\A k \in Marks :
              (InBranch(k[1], k[2]) = {} /\ Marked(k[1], k[2], k[3]))
                  => awards[k] # <<>>)

\* the span e lies within the text s
SpanInRange(s, e) == e.offset + e.length <= Len(s)

\* the spans of message m that lie within its text
SpansInRange(m) ==
    SelectSeq(Catalogue[m.content].entities,
              LAMBDA e : SpanInRange(Catalogue[m.content].s, e))

\* C14: a hashtag span that runs past the end of the text is dropped.  Once
\* the handler has taken the tags of the message, they are the tags of its
\* spans within the text; and a message whose spans all run past the end and
\* whose cleaned text holds no tag enters no branch and gets no award.
C14_OutOfRangeDropped ==
    (msg \in Messages /\ is_group(msg) /\ ~IsBot(msg.from_user)
         /\ received >= 1)
        => LET s == Catalogue[msg.content].s
           IN  /\ EntityTags(msg) = extract_hashtags_from(s, SpansInRange(msg))
               /\ (/\ SpansInRange(msg) = <<>>
                   /\ ~ChallengeSearch(clean_text(s))
                   /\ ~PlusOneSearch(clean_text(s)))
                      => /\ \A w \in Workers : pc[w] = "idle"
                         /\ \A k \in Marks : awards[k] = <<>>

\* C15: normalization makes the variants of a tag equal.  Whatever
\* whitespace surrounds the tag, whatever zero-width characters and
\* whitespace follow its '#', in small or capital letters: clean_text returns
\* the tag itself, which the tag tests of the handlers then find.
C15_VariantsEqual ==
    \A t \in Tags :
        (calls >= 1 /\ s_raw \in TagVariants[t])
            => /\ s_clean = t
               /\ ChallengeSearch(s_clean) <=> t = CHALLENGE_CANON
               /\ PlusOneSearch(s_clean) <=> t \in PLUS_ONE_TAGS

\* '#' ZWSP and the challenge tag in capital letters was cleaned to the tag
C15_Witness ==
    /\ s_raw = <<"#", "ZWSP">> \o Upper(Tail(CHALLENGE_CANON))
    /\ calls = 1
    /\ s_clean = CHALLENGE_CANON

\* C20: clean_text is idempotent and its result is normalized: what it
\* returns has no whitespace at its ends and no zero-width character, and
\* clean_text called on it returns it unchanged.
C20_CleanIdempotent ==
    /\ [](calls >= 1 =>
              /\ s_clean # <<>> =>
                     ~IsSpace(s_clean[1]) /\ ~IsSpace(s_clean[Len(s_clean)])
              /\ \A i \in 1..Len(s_clean) : s_clean[i] \notin ZERO_WIDTH)
    /\ [][calls >= 1 => s_clean' = s_clean]_vars

Outsider(c, u) == ChatType(c) \notin {"group", "supergroup"} \/ IsBot(u)

Twin(m) ==
    [m EXCEPT !.content_type = IF @ = "text" THEN "photo" ELSE "text"]

\* C18: the text handler and the media handler decide alike.  Every step in
\* which one of them handles the message is a step the other one takes, in
\* the same state, for the same string and spans sent as the other kind: the
\* same return, or the same branch with the same amount, after which both go
\* through the same can_post_tag and add_point.
C18_TextMediaAlike ==
    [][(msg \in Messages /\ received' = received + 1) =>
           \E w \in Workers :
               /\ pc[w] = "idle"
               /\ msg.content_type = "text" =>
                      handle_group_media(w, Twin(msg))
               /\ msg.content_type = "photo" =>
                      handle_group_text(w, Twin(msg))]_vars

\* the caption "x#ball", whose tag only the span gives, was awarded 1 point
C18_Witness ==
    /\ msg \in Messages
    /\ msg.content_type = "photo"
    /\ msg.content = 10
    /\ outcome = Answer("awarded", 1, 1, <<>>)

RECURSIVE AwardedIn(_, _)
\* the amounts add_point has committed for the keys of the set S in chat c
AwardedIn(c, S) ==
    IF S = {} THEN 0
    ELSE LET k == CHOOSE x \in S : TRUE
         IN  (IF k[1] = c THEN SeqSum(awards[k]) ELSE 0)
                 + AwardedIn(c, S \ {k})

RECURSIVE ToBeShown(_, _)
\* the amounts of the handlers of the set W that have added their award in
\* chat c and not yet sent the reply
ToBeShown(c, W) ==
    IF W = {} THEN 0
    ELSE LET w == CHOOSE x \in W : TRUE
         IN  (IF pc[w] \in {"select_points", "reply"} /\ job[w].chat_id = c
                     /\ job[w].answer.kind # "rejected"
              THEN job[w].amount ELSE 0)
                 + ToBeShown(c, W \ {w})

\* the answers of the commands
CommandKinds == {"help", "balance", "top", "total"}

\* C19: conservation of points.  In every state get_total of a chat is the
\* sum of the points of its rows and the sum of the amounts of the award
\* replies issued for it, where an award that a running handler has committed
\* and is about to show counts as issued; the commands answer from the tables
\* and change no row.
C19_Conservation ==
    /\ [](\A c \in Chats :
              /\ get_total(scores, c)
                     = SeqSum([i \in 1..Len(SortTop({r \in scores :
                                                         r.chat_id = c}))
                                  |-> SortTop({r \in scores :
                                                   r.chat_id = c})[i].points])
              /\ get_total(scores, c) = issued[c] + ToBeShown(c, Workers))
    /\ [][\A w \in Workers :
              /\ (pc[w] = "idle" /\ job'[w].answer.kind \in CommandKinds) =>
                     /\ scores' = scores
                     /\ last_tag' = last_tag
                     /\ pc'[w] = "reply"
                     /\ job'[w].answer.kind = "total" =>
                            \E c \in Chats :
                                job'[w].answer.new_points
                                    = AwardedIn(c, Marks)
                     /\ job'[w].answer.kind = "balance" =>
                            \E k \in Senders :
                                job'[w].answer.new_points
                                    = AwardedUpTo(k[1], k[2], MaxDay)
              /\ (pc[w] = "reply" /\ pc'[w] # pc[w]
                      /\ job[w].answer.kind \in CommandKinds) =>
                     /\ scores' = scores
                     /\ last_tag' = last_tag
                     /\ outcome' = job[w].answer]_vars
====
